---- MODULE Spec2Model ----
(***************************************************************************)
(* get_confusion_matrix and get_unsup_confusion_matrix of                  *)
(* src/datasets/utils.py, as a state machine.                              *)
(*                                                                         *)
(* The matrices are torch.zeros(...) tensors, i.e. float32.  A float32 is  *)
(* modelled bit-exactly for the non-negative values the two functions can  *)
(* produce: [k |-> "fin", m |-> mantissa, e |-> exponent] is m * 2^e with   *)
(* either m = 0 and e = 0, or 2^23 <= m < 2^24 (normal), or 0 < m < 2^23    *)
(* and e = -149 (subnormal); [k |-> "inf"] and [k |-> "nan"] are +inf and  *)
(* NaN.  Division and addition round to nearest, ties to even.             *)
(***************************************************************************)
EXTENDS Integers, Sequences, FiniteSets

\* ------------------------------------------------------------------ bounds
\* num_classes of the calls
NumClasses == 2
\* most examples of a get_confusion_matrix call
MaxLen == 3
\* most examples of a get_unsup_confusion_matrix call (Spec)
MaxWeighted == 2
\* most examples of a get_unsup_confusion_matrix call (SpecWide)
MaxWide == 3
\* most examples of each of two concurrent calls (SpecPair)
MaxPairLen == 2
MaxPairWeighted == 1

Classes == 0 .. (NumClasses - 1)

\* ----------------------------------------------------------------- float32
Hidden == 2^23
MantLimit == 2^24
MinExp == 0 - 149
MaxExp == 127 - 23

Fin(m, e) == [k |-> "fin", m |-> m, e |-> e]
Zero == Fin(0, 0)
One == Fin(Hidden, 0 - 23)
Inf == [k |-> "inf", m |-> 0, e |-> 0]
NaN == [k |-> "nan", m |-> 0, e |-> 0]

IsNaN(x) == x.k = "nan"
IsInf(x) == x.k = "inf"
IsFinite(x) == x.k = "fin"
IsZero(x) == x.k = "fin" /\ x.m = 0

Max2(a, b) == IF a >= b THEN a ELSE b

\* number of significant bits of M, 0 <= M < 2^31
BitLen(M) ==
  IF M >= 2^30 THEN 31
  ELSE CHOOSE n \in 0 .. 30 : M < 2^n /\ (n = 0 \/ M >= 2^(n - 1))

\* The float32 nearest to (M + s) * 2^E, where 0 <= M < 2^31 and s (sticky) says
\* that a positive amount below one unit of M was dropped; ties go to even.
Round(M, E, sticky) ==
  IF M = 0 THEN Zero
  ELSE
    LET sh == Max2(Max2(BitLen(M) - 24, MinExp - E), 0) IN
    IF sh = 0
    THEN \* exact: shift left until normal or at the smallest exponent
      LET up == IF (24 - BitLen(M)) <= (E - MinExp) THEN 24 - BitLen(M) ELSE E - MinExp
          e2 == E - up
      IN IF e2 > MaxExp THEN Inf ELSE Fin(M * 2^up, e2)
    ELSE
      LET q == IF sh >= 31 THEN 0 ELSE M \div 2^sh
          r == IF sh >= 31 THEN M ELSE M % 2^sh
          \* r compared with half a unit: sh >= 32 puts M below the half
          cmp == IF sh >= 32 THEN 0 - 1
                 ELSE IF r > 2^(sh - 1) THEN 1
                 ELSE IF r < 2^(sh - 1) THEN 0 - 1
                 ELSE IF sticky THEN 1 ELSE 0
          roundUp == cmp = 1 \/ (cmp = 0 /\ q % 2 = 1)
          q2 == IF roundUp THEN q + 1 ELSE q
          m3 == IF q2 = MantLimit THEN Hidden ELSE q2
          e3 == IF q2 = MantLimit THEN E + sh + 1 ELSE E + sh
      IN IF m3 = 0 THEN Zero
         ELSE IF e3 > MaxExp THEN Inf
         ELSE Fin(m3, e3)

\* float(n) for a small natural n
FromNat(n) == Round(n, 0, FALSE)

\* a / b on float32 tensors (elementwise `/`), a and b non-negative or NaN
FDiv(a, b) ==
  IF IsNaN(a) \/ IsNaN(b) THEN NaN
  ELSE IF IsInf(b) THEN (IF IsInf(a) THEN NaN ELSE Zero)
  ELSE IF IsZero(b) THEN (IF IsZero(a) THEN NaN ELSE Inf)
  ELSE IF IsInf(a) THEN Inf
  ELSE IF IsZero(a) THEN Zero
  ELSE
    LET sa == 24 - BitLen(a.m)
        sb == 24 - BitLen(b.m)
        na == a.m * 2^sa
        nb == b.m * 2^sb
        \* long division of na * 2^28 by nb, seven bits at a time
        q1 == (na * 128) \div nb
        r1 == (na * 128) % nb
        q2 == (r1 * 128) \div nb
        r2 == (r1 * 128) % nb
        q3 == (r2 * 128) \div nb
        r3 == (r2 * 128) % nb
        q4 == (r3 * 128) \div nb
        r4 == (r3 * 128) % nb
        q == ((q1 * 128 + q2) * 128 + q3) * 128 + q4
    IN Round(q, (a.e - sa) - (b.e - sb) - 28, r4 # 0)

\* a + b on float32 (`+=`), a and b non-negative or NaN
FAdd(a, b) ==
  IF IsNaN(a) \/ IsNaN(b) THEN NaN
  ELSE IF IsInf(a) \/ IsInf(b) THEN Inf
  ELSE IF IsZero(a) THEN b
  ELSE IF IsZero(b) THEN a
  ELSE
    LET hi == IF a.e >= b.e THEN a ELSE b
        lo == IF a.e >= b.e THEN b ELSE a
        d == hi.e - lo.e
    IN IF d <= 6 THEN Round(hi.m * 2^d + lo.m, lo.e, FALSE)
       ELSE
         LET cut == d - 6
             kept == IF cut >= 25 THEN 0 ELSE lo.m \div 2^cut
             lost == IF cut >= 25 THEN lo.m ELSE lo.m % 2^cut
         IN Round(hi.m * 64 + kept, hi.e - 6, lost # 0)

\* a <= b for non-negative float32 values, neither NaN
FLe(a, b) ==
  IF IsInf(b) THEN TRUE
  ELSE IF IsInf(a) THEN FALSE
  ELSE IF IsZero(a) THEN TRUE
  ELSE IF IsZero(b) THEN FALSE
  ELSE a.e < b.e \/ (a.e = b.e /\ a.m <= b.m)

FLt(a, b) == FLe(a, b) /\ a # b

\* --------------------------------------------------------------- the inputs
\* marginal weights offered to the calls: 0, the smallest positive float32
\* (2^-149), 0.3125 and 1.0
Tiny == Fin(1, MinExp)
FiveSixteenths == Fin(5 * 2^21, 0 - 25)
Weights == {Zero, Tiny, FiveSixteenths, One}

Calls == {1, 2}
None == << >>

Perms(n) == {p \in [1 .. n -> 1 .. n] : \A j, k \in 1 .. n : p[j] = p[k] => j = k}
Permute(s, p) == [k \in 1 .. Len(s) |-> s[p[k]]]

VARIABLES
  fn,                        \* which function the calls run: "sup" or "unsup"
  targets, biases, marginals, \* the arguments of each call
  pc, i,                     \* each call's position, and its place in the zip
  confusion_matrix_org, confusion_matrix_org_by, confusion_matrix_cnt,
  zero_idx, confusion_matrix, confusion_matrix_by,
  ret                        \* the tuple each call returned

args == <<fn, targets, biases, marginals>>
locals == <<confusion_matrix_org, confusion_matrix_org_by, confusion_matrix_cnt,
            zero_idx, confusion_matrix, confusion_matrix_by>>
vars == <<args, pc, i, locals, ret>>

\* ------------------------------------------------------- tensor operations
\* torch.zeros(num_classes, num_classes)
Zeros == [b \in Classes |-> [t \in Classes |-> Zero]]

\* (a bug: one module-level accumulator, which the second call finds as the
\* first left it)
AllocShared(c) ==
  IF c = 2 /\ pc[1] \notin {"start", "idle"} THEN confusion_matrix_org[1] ELSE Zeros

\* the matrix a call starts from: a fresh tensor on every call
Alloc(c) == Zeros

\* M[r, col] += v
Accumulate(M, r, col, v) == [M EXCEPT ![r][col] = FAdd(@, v)]

\* (a bug: the indices of the two accumulations exchanged)
AddOrgSwapped(M, t, p) == Accumulate(M, t, p, One)

\* (a bug: the accumulator allocated anew inside the loop)
AddOrgReset(M, t, p) == [Zeros EXCEPT ![p][t] = FAdd(M[p][t], One)]

\* confusion_matrix_org[p.long(), t.long()] += 1
AddOrg(M, t, p) == Accumulate(M, p, t, One)

\* (a bug: the second accumulator filled in the orientation of the first)
AddByTransposed(M, t, p) == Accumulate(M, p, t, One)

\* confusion_matrix_org_by[t.long(), p.long()] += 1
AddBy(M, t, p) == Accumulate(M, t, p, One)

\* row.sum(): the entries added from left to right
RECURSIVE SumTo(_, _)
SumTo(row, n) == IF n < 0 THEN Zero ELSE FAdd(SumTo(row, n - 1), row[n])
RowSum(row) == SumTo(row, NumClasses - 1)

\* M.sum()
MatrixSum(M) == SumTo([b \in Classes |-> RowSum(M[b])], NumClasses - 1)

\* (a bug: M / M.sum(), the division by the global sum)
GlobalNormalize(M) ==
  [b \in Classes |-> [t \in Classes |-> FDiv(M[b][t], MatrixSum(M))]]

\* (a bug: a row of zeros substituted for a row whose sum is zero)
GuardedNormalize(M) ==
  [b \in Classes |-> [t \in Classes |->
     IF RowSum(M[b]) = Zero THEN Zero ELSE FDiv(M[b][t], RowSum(M[b]))]]

\* M / M.sum(1).unsqueeze(1)
RowNormalize(M) ==
  [b \in Classes |-> [t \in Classes |-> FDiv(M[b][t], RowSum(M[b]))]]

\* (a bug: a test for "nearly zero", true of every subnormal value)
AlmostZeroMask(M) ==
  [b \in Classes |-> [t \in Classes |->
     IsFinite(M[b][t]) /\ FLt(M[b][t], Fin(Hidden, MinExp))]]

\* M == 0
ZeroMask(M) == [b \in Classes |-> [t \in Classes |-> M[b][t] = Zero]]

\* M[mask] = v
FillMasked(M, mask, v) ==
  [b \in Classes |-> [t \in Classes |-> IF mask[b][t] THEN v ELSE M[b][t]]]

\* (a bug: the zero counts left in place)
SkipFixCount(C) == C

\* confusion_matrix_cnt[confusion_matrix_cnt == 0] = 1
FixCount(C) == FillMasked(C, ZeroMask(C), One)

\* confusion_matrix_org / confusion_matrix_cnt
ElementDiv(A, B) == [b \in Classes |-> [t \in Classes |-> FDiv(A[b][t], B[b][t])]]

\* confusion_matrix_org[zero_idx] = 1
Placeholder(M, mask) == FillMasked(M, mask, One)

\* (a bug: the mean weight returned without the inversion)
NoReciprocal(M) == M

\* 1 / confusion_matrix_org
Reciprocal(M) == [b \in Classes |-> [t \in Classes |-> FDiv(One, M[b][t])]]

\* (a bug: the masked cells left at the inverse of the placeholder)
NoClamp(M, mask) == M

\* confusion_matrix_org[zero_idx] = 0
ClampMasked(M, mask) == FillMasked(M, mask, Zero)

\* ------------------------------------------------------------------- Init
NoLocals ==
  /\ i = [c \in Calls |-> 0]
  /\ confusion_matrix_org = [c \in Calls |-> None]
  /\ confusion_matrix_org_by = [c \in Calls |-> None]
  /\ confusion_matrix_cnt = [c \in Calls |-> None]
  /\ zero_idx = [c \in Calls |-> None]
  /\ confusion_matrix = [c \in Calls |-> None]
  /\ confusion_matrix_by = [c \in Calls |-> None]
  /\ ret = [c \in Calls |-> None]

\* one call, entered with any valid arguments of at most nSup examples
\* (get_confusion_matrix) or nUnsup examples (get_unsup_confusion_matrix)
InitOne(nSup, nUnsup) ==
  /\ fn \in {"sup", "unsup"}
  /\ \E k \in 0 .. (IF fn = "sup" THEN nSup ELSE nUnsup) :
       \E ts \in [1 .. k -> Classes], bs \in [1 .. k -> Classes] :
         \E ms \in (IF fn = "sup" THEN {<< >>} ELSE [1 .. k -> Weights]) :
           /\ targets = [c \in Calls |-> IF c = 1 THEN ts ELSE << >>]
           /\ biases = [c \in Calls |-> IF c = 1 THEN bs ELSE << >>]
           /\ marginals = [c \in Calls |-> IF c = 1 THEN ms ELSE << >>]
  /\ pc = [c \in Calls |-> IF c = 1 THEN "start" ELSE "idle"]
  /\ NoLocals

Init == InitOne(MaxLen, MaxWeighted)

InitWide == InitOne(MaxLen, MaxWide)

\* two calls of the same function, the second on a joint permutation of the
\* examples of the first (the identity among them)
InitPair ==
  /\ fn \in {"sup", "unsup"}
  /\ \E k \in 0 .. (IF fn = "sup" THEN MaxPairLen ELSE MaxPairWeighted) :
       \E ts \in [1 .. k -> Classes], bs \in [1 .. k -> Classes], p \in Perms(k) :
         \E ms \in (IF fn = "sup" THEN {<< >>} ELSE [1 .. k -> Weights]) :
           /\ targets = [c \in Calls |-> IF c = 1 THEN ts ELSE Permute(ts, p)]
           /\ biases = [c \in Calls |-> IF c = 1 THEN bs ELSE Permute(bs, p)]
           /\ marginals = [c \in Calls |->
                             IF c = 1 \/ fn = "sup" THEN ms ELSE Permute(ms, p)]
  /\ pc = [c \in Calls |-> "start"]
  /\ NoLocals

\* ------------------------------------------------- get_confusion_matrix
SupAlloc(c) ==
  /\ fn = "sup" /\ pc[c] = "start"
  /\ confusion_matrix_org' = [confusion_matrix_org EXCEPT ![c] = Alloc(c)]
  /\ confusion_matrix_org_by' = [confusion_matrix_org_by EXCEPT ![c] = Zeros]
  /\ i' = [i EXCEPT ![c] = 1]
  /\ pc' = [pc EXCEPT ![c] = "loop"]
  /\ UNCHANGED <<args, confusion_matrix_cnt, zero_idx, confusion_matrix,
                 confusion_matrix_by, ret>>

SupLoop(c) ==
  /\ fn = "sup" /\ pc[c] = "loop" /\ i[c] <= Len(targets[c])
  /\ LET t == targets[c][i[c]]
         p == biases[c][i[c]]
     IN /\ confusion_matrix_org' =
             [confusion_matrix_org EXCEPT ![c] = AddOrg(@, t, p)]
        /\ confusion_matrix_org_by' =
             [confusion_matrix_org_by EXCEPT ![c] = AddBy(@, t, p)]
  /\ i' = [i EXCEPT ![c] = @ + 1]
  /\ UNCHANGED <<args, pc, confusion_matrix_cnt, zero_idx, confusion_matrix,
                 confusion_matrix_by, ret>>

SupNormalize(c) ==
  /\ fn = "sup" /\ pc[c] = "loop" /\ i[c] > Len(targets[c])
  /\ confusion_matrix' =
       [confusion_matrix EXCEPT ![c] = RowNormalize(confusion_matrix_org[c])]
  /\ confusion_matrix_by' =
       [confusion_matrix_by EXCEPT ![c] = RowNormalize(confusion_matrix_org_by[c])]
  /\ pc' = [pc EXCEPT ![c] = "return"]
  /\ UNCHANGED <<args, i, confusion_matrix_org, confusion_matrix_org_by,
                 confusion_matrix_cnt, zero_idx, ret>>

SupReturn(c) ==
  /\ fn = "sup" /\ pc[c] = "return"
  /\ ret' = [ret EXCEPT ![c] = <<confusion_matrix_org[c], confusion_matrix[c],
                                 confusion_matrix_by[c]>>]
  /\ pc' = [pc EXCEPT ![c] = "done"]
  /\ UNCHANGED <<args, i, locals>>

\* ------------------------------------------- get_unsup_confusion_matrix
UnsupAlloc(c) ==
  /\ fn = "unsup" /\ pc[c] = "start"
  /\ confusion_matrix_org' = [confusion_matrix_org EXCEPT ![c] = Alloc(c)]
  /\ confusion_matrix_cnt' = [confusion_matrix_cnt EXCEPT ![c] = Zeros]
  /\ i' = [i EXCEPT ![c] = 1]
  /\ pc' = [pc EXCEPT ![c] = "loop"]
  /\ UNCHANGED <<args, confusion_matrix_org_by, zero_idx, confusion_matrix,
                 confusion_matrix_by, ret>>

UnsupLoop(c) ==
  /\ fn = "unsup" /\ pc[c] = "loop" /\ i[c] <= Len(targets[c])
  /\ LET t == targets[c][i[c]]
         p == biases[c][i[c]]
         m == marginals[c][i[c]]
     IN /\ confusion_matrix_org' =
             [confusion_matrix_org EXCEPT ![c] = Accumulate(@, p, t, m)]
        /\ confusion_matrix_cnt' =
             [confusion_matrix_cnt EXCEPT ![c] = Accumulate(@, p, t, One)]
  /\ i' = [i EXCEPT ![c] = @ + 1]
  /\ UNCHANGED <<args, pc, confusion_matrix_org_by, zero_idx, confusion_matrix,
                 confusion_matrix_by, ret>>

UnsupZeroIdx(c) ==
  /\ fn = "unsup" /\ pc[c] = "loop" /\ i[c] > Len(targets[c])
  /\ zero_idx' = [zero_idx EXCEPT ![c] = ZeroMask(confusion_matrix_org[c])]
  /\ pc' = [pc EXCEPT ![c] = "fix_count"]
  /\ UNCHANGED <<args, i, confusion_matrix_org, confusion_matrix_org_by,
                 confusion_matrix_cnt, confusion_matrix, confusion_matrix_by, ret>>

UnsupFixCount(c) ==
  /\ fn = "unsup" /\ pc[c] = "fix_count"
  /\ confusion_matrix_cnt' =
       [confusion_matrix_cnt EXCEPT ![c] = FixCount(@)]
  /\ pc' = [pc EXCEPT ![c] = "mean"]
  /\ UNCHANGED <<args, i, confusion_matrix_org, confusion_matrix_org_by,
                 zero_idx, confusion_matrix, confusion_matrix_by, ret>>

UnsupMean(c) ==
  /\ fn = "unsup" /\ pc[c] = "mean"
  /\ confusion_matrix_org' =
       [confusion_matrix_org EXCEPT ![c] = ElementDiv(@, confusion_matrix_cnt[c])]
  /\ pc' = [pc EXCEPT ![c] = "placeholder"]
  /\ UNCHANGED <<args, i, confusion_matrix_org_by, confusion_matrix_cnt,
                 zero_idx, confusion_matrix, confusion_matrix_by, ret>>

UnsupPlaceholder(c) ==
  /\ fn = "unsup" /\ pc[c] = "placeholder"
  /\ confusion_matrix_org' =
       [confusion_matrix_org EXCEPT ![c] = Placeholder(@, zero_idx[c])]
  /\ pc' = [pc EXCEPT ![c] = "invert"]
  /\ UNCHANGED <<args, i, confusion_matrix_org_by, confusion_matrix_cnt,
                 zero_idx, confusion_matrix, confusion_matrix_by, ret>>

UnsupInvert(c) ==
  /\ fn = "unsup" /\ pc[c] = "invert"
  /\ confusion_matrix_org' = [confusion_matrix_org EXCEPT ![c] = Reciprocal(@)]
  /\ pc' = [pc EXCEPT ![c] = "clamp"]
  /\ UNCHANGED <<args, i, confusion_matrix_org_by, confusion_matrix_cnt,
                 zero_idx, confusion_matrix, confusion_matrix_by, ret>>

UnsupClamp(c) ==
  /\ fn = "unsup" /\ pc[c] = "clamp"
  /\ confusion_matrix_org' =
       [confusion_matrix_org EXCEPT ![c] = ClampMasked(@, zero_idx[c])]
  /\ pc' = [pc EXCEPT ![c] = "normalize"]
  /\ UNCHANGED <<args, i, confusion_matrix_org_by, confusion_matrix_cnt,
                 zero_idx, confusion_matrix, confusion_matrix_by, ret>>

UnsupNormalize(c) ==
  /\ fn = "unsup" /\ pc[c] = "normalize"
  /\ confusion_matrix' =
       [confusion_matrix EXCEPT ![c] = RowNormalize(confusion_matrix_org[c])]
  /\ pc' = [pc EXCEPT ![c] = "return"]
  /\ UNCHANGED <<args, i, confusion_matrix_org, confusion_matrix_org_by,
                 confusion_matrix_cnt, zero_idx, confusion_matrix_by, ret>>

UnsupReturn(c) ==
  /\ fn = "unsup" /\ pc[c] = "return"
  /\ ret' = [ret EXCEPT ![c] = <<confusion_matrix_org[c], confusion_matrix[c]>>]
  /\ pc' = [pc EXCEPT ![c] = "done"]
  /\ UNCHANGED <<args, i, locals>>

Step(c) ==
  \/ SupAlloc(c)
  \/ SupLoop(c)
  \/ SupNormalize(c)
  \/ SupReturn(c)
  \/ UnsupAlloc(c)
  \/ UnsupLoop(c)
  \/ UnsupZeroIdx(c)
  \/ UnsupFixCount(c)
  \/ UnsupMean(c)
  \/ UnsupPlaceholder(c)
  \/ UnsupInvert(c)
  \/ UnsupClamp(c)
  \/ UnsupNormalize(c)
  \/ UnsupReturn(c)

Next == \E c \in Calls : Step(c)

\* one call
Spec == Init /\ [][Next]_vars

\* one call, with longer weighted inputs
SpecWide == InitWide /\ [][Next]_vars

\* two calls whose steps interleave
SpecPair == InitPair /\ [][Next]_vars

\* ================================================================== claims
\* What the arguments of call c say, computed from the sequences themselves.
Returned(c) == pc[c] = "done"
Examples(c) == 1 .. Len(targets[c])
Hits(c, b, t) == {k \in Examples(c) : biases[c][k] = b /\ targets[c][k] = t}
BiasCount(c, b) == Cardinality({k \in Examples(c) : biases[c][k] = b})
TargetCount(c, t) == Cardinality({k \in Examples(c) : targets[c][k] = t})

\* the float32 sum, in the order of the sequence, of the marginals of the
\* first n examples with bias b and target t
RECURSIVE WeightTo(_, _, _, _)
WeightTo(c, b, t, n) ==
  IF n = 0 THEN Zero
  ELSE IF biases[c][n] = b /\ targets[c][n] = t
       THEN FAdd(WeightTo(c, b, t, n - 1), marginals[c][n])
       ELSE WeightTo(c, b, t, n - 1)
CellWeight(c, b, t) == WeightTo(c, b, t, Len(targets[c]))

\* x is within NumClasses * 2^-23 of 1
NearOne(x) ==
  /\ IsFinite(x)
  /\ \/ x.e = 0 - 24 /\ MantLimit - x.m <= 2 * NumClasses
     \/ x.e = 0 - 23 /\ x.m - Hidden <= NumClasses

\* m1 * 2^e1 / n1 < m2 * 2^e2 / n2, exactly
ExactMeanLt(x, n1, y, n2) ==
  LET p1 == x.m * n2
      p2 == y.m * n1
      l1 == BitLen(p1) + x.e
      l2 == BitLen(p2) + y.e
  IN IF p2 = 0 THEN FALSE
     ELSE IF p1 = 0 THEN TRUE
     ELSE IF l1 # l2 THEN l1 < l2
     ELSE IF x.e >= y.e THEN p1 * 2^(x.e - y.e) < p2
     ELSE p1 < p2 * 2^(y.e - x.e)

\* the (matrix before the normalization, normalized matrix) pairs of a
\* returned call
NormPairs(c) ==
  IF fn = "sup"
  THEN {<<confusion_matrix_org[c], ret[c][2]>>,
        <<confusion_matrix_org_by[c], ret[c][3]>>}
  ELSE {<<ret[c][1], ret[c][2]>>}

\* zero_idx of call c has been captured
Captured(c) ==
  fn = "unsup" /\ pc[c] \in {"fix_count", "mean", "placeholder", "invert",
                            "clamp", "normalize", "return", "done"}

\* C1: in the first matrix get_confusion_matrix returns, entry [b][t] is
\* the number of examples with bias b and target t, and the entries sum to
\* the number of examples.
C1_RawCounts ==
  \A c \in Calls :
    (fn = "sup" /\ Returned(c)) =>
      /\ \A b, t \in Classes :
           ret[c][1][b][t] = FromNat(Cardinality(Hits(c, b, t)))
      /\ MatrixSum(ret[c][1]) = FromNat(Len(targets[c]))

C1_Witness ==
  /\ fn = "sup" /\ Returned(1) /\ Len(targets[1]) >= 3
  /\ \E b, t \in Classes : Cardinality(Hits(1, b, t)) >= 2 /\ b # t
  /\ \E b, t \in Classes : Hits(1, b, t) = {} /\ ret[1][1][b][t] = Zero

\* C2 (as claimed): in every normalized matrix returned, a row whose sum
\* before the normalization is nonzero has entries that sum to exactly 1,
\* each the entry before the normalization divided by that row's own sum.
C2_RowsSumToOne ==
  \A c \in Calls :
    Returned(c) =>
      \A pr \in NormPairs(c) : \A b \in Classes :
        RowSum(pr[1][b]) # Zero =>
          /\ RowSum(pr[2][b]) = One
          /\ \A t \in Classes : pr[2][b][t] = FDiv(pr[1][b][t], RowSum(pr[1][b]))

\* C2 (amended): in every normalized matrix returned, a row whose sum before
\* the normalization is nonzero and finite has each entry equal to the
\* float32 quotient of the entry before the normalization by that row's own
\* sum, and its entries sum to 1 up to float32 rounding (within
\* num_classes * 2^-23), not always to exactly 1.
C2_RowsSumNearOne ==
  \A c \in Calls :
    Returned(c) =>
      \A pr \in NormPairs(c) : \A b \in Classes :
        (RowSum(pr[1][b]) # Zero /\ IsFinite(RowSum(pr[1][b]))) =>
          /\ NearOne(RowSum(pr[2][b]))
          /\ \A t \in Classes : pr[2][b][t] = FDiv(pr[1][b][t], RowSum(pr[1][b]))

C2_Witness ==
  /\ fn = "unsup" /\ Returned(1)
  /\ \E b \in Classes :
       /\ RowSum(ret[1][1][b]) # Zero /\ IsFinite(RowSum(ret[1][1][b]))
       /\ RowSum(ret[1][2][b]) # One
       /\ NearOne(RowSum(ret[1][2][b]))

C4_ZeroMaskInvariant ==
  \A c \in Calls :
    (fn = "unsup" /\ Returned(c)) =>
      \A b, t \in Classes :
        Hits(c, b, t) = {} => (zero_idx[c][b][t] /\ ret[c][1][b][t] = Zero)

C4_Witness ==
  /\ fn = "unsup" /\ Returned(1)
  /\ \E b \in Classes :
       /\ BiasCount(1, b) = 0
       /\ \A t \in Classes : zero_idx[1][b][t] /\ ret[1][1][b][t] = Zero
  /\ \E b, t \in Classes : ret[1][1][b][t] # Zero

\* C5: the row normalization is unguarded: in get_confusion_matrix the row
\* of normalized of a class that is never a bias label, and the row of
\* normalized_by of a class that is never a target, are all NaN (0/0); in
\* get_unsup_confusion_matrix a row of surprise that sums to zero
\* normalizes to NaN as well.  No row of zeros is substituted.
C5_UnguardedDivision ==
  \A c \in Calls :
    Returned(c) =>
      IF fn = "sup"
      THEN /\ \A b \in Classes : BiasCount(c, b) = 0 =>
                \A t \in Classes : IsNaN(ret[c][2][b][t])
           /\ \A t \in Classes : TargetCount(c, t) = 0 =>
                \A b \in Classes : IsNaN(ret[c][3][t][b])
      ELSE \A b \in Classes : RowSum(ret[c][1][b]) = Zero =>
                \A t \in Classes : IsNaN(ret[c][2][b][t])

C5_Witness ==
  /\ fn = "sup" /\ Returned(1) /\ Len(targets[1]) > 0
  /\ \E b \in Classes :
       BiasCount(1, b) = 0 /\ \A t \in Classes : IsNaN(ret[1][2][b][t])
  /\ \E t \in Classes :
       TargetCount(1, t) = 0 /\ \A b \in Classes : IsNaN(ret[1][3][t][b])

\* C6: the two functions are pure: two calls with identical arguments,
\* their steps interleaved in any way, return identical matrices; a step of
\* one call changes no local of the other call; and no step changes the
\* arguments.
C6_Pure ==
  /\ [](\A c, d \in Calls :
          (Returned(c) /\ Returned(d) /\ targets[c] = targets[d]
             /\ biases[c] = biases[d] /\ marginals[c] = marginals[d]) =>
            ret[c] = ret[d])
  /\ [][\A c \in Calls :
          (pc'[c] = pc[c] /\ i'[c] = i[c]) =>
            /\ confusion_matrix_org'[c] = confusion_matrix_org[c]
            /\ confusion_matrix_org_by'[c] = confusion_matrix_org_by[c]
            /\ confusion_matrix_cnt'[c] = confusion_matrix_cnt[c]
            /\ zero_idx'[c] = zero_idx[c]
            /\ confusion_matrix'[c] = confusion_matrix[c]
            /\ confusion_matrix_by'[c] = confusion_matrix_by[c]
            /\ ret'[c] = ret[c]]_vars
  /\ [][args' = args]_vars

C6_Witness ==
  /\ fn = "unsup" /\ Returned(1) /\ Returned(2)
  /\ Len(targets[1]) > 0
  /\ targets[1] = targets[2] /\ biases[1] = biases[2] /\ marginals[1] = marginals[2]
  /\ ret[1] = ret[2]
  /\ \E b, t \in Classes : IsFinite(ret[1][1][b][t]) /\ ret[1][1][b][t] # Zero

\* C7 (as claimed): with non-negative marginals, zero_idx is true at a cell
\* exactly when no example landed in it.
C7_MaskIffEmpty ==
  \A c \in Calls :
    Captured(c) =>
      \A b, t \in Classes : zero_idx[c][b][t] <=> (Hits(c, b, t) = {})

\* C7 (amended): with non-negative marginals, zero_idx is true at a cell
\* exactly when no example with a positive marginal landed in it: a cell
\* whose examples all have marginal 0 is masked like an empty one.
C7_MaskIffNoWeight ==
  \A c \in Calls :
    Captured(c) =>
      \A b, t \in Classes :
        zero_idx[c][b][t] <=> (\A k \in Hits(c, b, t) : marginals[c][k] = Zero)

C7_Witness ==
  /\ Captured(1)
  /\ \E b, t \in Classes : Hits(1, b, t) # {} /\ zero_idx[1][b][t]
  /\ \E b, t \in Classes : CellWeight(1, b, t) = Tiny /\ ~zero_idx[1][b][t]

\* the mean weight of the cell is zero or in the normal range of float32:
\* weighted_sum = 0 or weighted_sum >= count * 2^-126
NormalCell(c, b, t) ==
  \/ CellWeight(c, b, t) = Zero
  \/ FLe(Round(Cardinality(Hits(c, b, t)), 0 - 126, FALSE), CellWeight(c, b, t))

\* C8 (as claimed): the surprise stage never divides by zero: at the
\* division every count is at least 1 and a cell with no example has
\* weighted_sum 0, at the inversion every mean weight is nonzero, and every
\* entry of surprise is finite.
C8_NoDivisionByZero ==
  \A c \in Calls :
    fn = "unsup" =>
      /\ pc[c] = "mean" =>
           \A b, t \in Classes :
             /\ FLe(One, confusion_matrix_cnt[c][b][t])
             /\ Hits(c, b, t) = {} => confusion_matrix_org[c][b][t] = Zero
      /\ pc[c] = "invert" =>
           \A b, t \in Classes : ~IsZero(confusion_matrix_org[c][b][t])
      /\ pc[c] \in {"clamp", "normalize", "return", "done"} =>
           \A b, t \in Classes : IsFinite(confusion_matrix_org[c][b][t])

\* C8 (amended): at the division every count is at least 1 and a cell with
\* no example has weighted_sum 0; at the inversion the mean weight is
\* nonzero, and the entry of surprise finite, in every cell whose
\* weighted_sum is 0 or at least count * 2^-126 (a mean in float32's normal
\* range).  A smaller positive mean can round to 0 or invert to inf.
C8_NoDivisionByZeroNormal ==
  \A c \in Calls :
    fn = "unsup" =>
      /\ pc[c] = "mean" =>
           \A b, t \in Classes :
             /\ FLe(One, confusion_matrix_cnt[c][b][t])
             /\ Hits(c, b, t) = {} => confusion_matrix_org[c][b][t] = Zero
      /\ pc[c] = "invert" =>
           \A b, t \in Classes :
             NormalCell(c, b, t) => ~IsZero(confusion_matrix_org[c][b][t])
      /\ pc[c] \in {"clamp", "normalize", "return", "done"} =>
           \A b, t \in Classes :
             NormalCell(c, b, t) => IsFinite(confusion_matrix_org[c][b][t])

C8_Witness ==
  /\ fn = "unsup" /\ Returned(1)
  /\ \E b, t \in Classes : Hits(1, b, t) = {}
  /\ \E b, t \in Classes : Hits(1, b, t) # {} /\ CellWeight(1, b, t) = Zero
  /\ \E b, t \in Classes :
       /\ CellWeight(1, b, t) # Zero /\ NormalCell(1, b, t)
       /\ IsFinite(ret[1][1][b][t]) /\ ret[1][1][b][t] # Zero

\* C9 (as claimed): in every cell with a nonzero weighted_sum, surprise is
\* count / weighted_sum; of two such cells the one with the higher mean
\* marginal has the strictly lower surprise; and a masked cell does not
\* return the placeholder 1.
C9_SurpriseIsCountOverSum ==
  \A c \in Calls :
    (fn = "unsup" /\ Returned(c)) =>
      /\ \A b, t \in Classes :
           IF CellWeight(c, b, t) # Zero
           THEN ret[c][1][b][t] = FDiv(FromNat(Cardinality(Hits(c, b, t))),
                                       CellWeight(c, b, t))
           ELSE ret[c][1][b][t] # One
      /\ \A b1, t1, b2, t2 \in Classes :
           (/\ CellWeight(c, b1, t1) # Zero
            /\ CellWeight(c, b2, t2) # Zero
            /\ ExactMeanLt(CellWeight(c, b1, t1), Cardinality(Hits(c, b1, t1)),
                           CellWeight(c, b2, t2), Cardinality(Hits(c, b2, t2))))
           => FLt(ret[c][1][b2][t2], ret[c][1][b1][t1])

\* C9 (amended): in every cell with a nonzero weighted_sum, surprise is the
\* float32 inverse of the float32 mean weighted_sum / count, which is
\* count / weighted_sum only up to rounding, and inf when the mean
\* underflows; of two such cells the one with the higher mean marginal has
\* a surprise that is lower or equal, not always strictly lower; and a
\* masked cell returns 0, never the placeholder 1.
C9_SurpriseIsInverseMean ==
  \A c \in Calls :
    (fn = "unsup" /\ Returned(c)) =>
      /\ \A b, t \in Classes :
           IF CellWeight(c, b, t) # Zero
           THEN ret[c][1][b][t] =
                  FDiv(One, FDiv(CellWeight(c, b, t),
                                 FromNat(Cardinality(Hits(c, b, t)))))
           ELSE ret[c][1][b][t] = Zero
      /\ \A b1, t1, b2, t2 \in Classes :
           (/\ CellWeight(c, b1, t1) # Zero
            /\ CellWeight(c, b2, t2) # Zero
            /\ ExactMeanLt(CellWeight(c, b1, t1), Cardinality(Hits(c, b1, t1)),
                           CellWeight(c, b2, t2), Cardinality(Hits(c, b2, t2))))
           => FLe(ret[c][1][b2][t2], ret[c][1][b1][t1])

C9_Witness ==
  /\ fn = "unsup" /\ Returned(1)
  /\ \E b1, t1, b2, t2 \in Classes :
       /\ CellWeight(1, b1, t1) # Zero
       /\ CellWeight(1, b2, t2) # Zero
       /\ ExactMeanLt(CellWeight(1, b1, t1), Cardinality(Hits(1, b1, t1)),
                      CellWeight(1, b2, t2), Cardinality(Hits(1, b2, t2)))
       /\ FLt(ret[1][1][b2][t2], ret[1][1][b1][t1])
       /\ IsFinite(ret[1][1][b1][t1])
  /\ \E b, t \in Classes : zero_idx[1][b][t] /\ ret[1][1][b][t] = Zero

\* C10: get_confusion_matrix does not depend on the order of the examples:
\* a step of its loop adds 1 to the cell [bias][target] of raw and 1 to the
\* cell [target][bias] of the by-accumulator and changes no other cell, and
\* two calls whose examples are a joint permutation of each other return
\* the same three matrices.
C10_OrderIndependent ==
  /\ [](\A c, d \in Calls :
          (fn = "sup" /\ Returned(c) /\ Returned(d)) => ret[c] = ret[d])
  /\ [][\A c \in Calls :
          (fn = "sup" /\ pc[c] = "loop" /\ i'[c] = i[c] + 1) =>
            LET t == targets[c][i[c]]
                p == biases[c][i[c]]
            IN /\ \A b, u \in Classes :
                    confusion_matrix_org'[c][b][u] =
                      IF b = p /\ u = t
                      THEN FAdd(confusion_matrix_org[c][b][u], One)
                      ELSE confusion_matrix_org[c][b][u]
               /\ \A u, b \in Classes :
                    confusion_matrix_org_by'[c][u][b] =
                      IF u = t /\ b = p
                      THEN FAdd(confusion_matrix_org_by[c][u][b], One)
                      ELSE confusion_matrix_org_by[c][u][b]]_vars

C10_Witness ==
  /\ fn = "sup" /\ Returned(1) /\ Returned(2)
  /\ <<targets[1], biases[1]>> # <<targets[2], biases[2]>>
  /\ ret[1] = ret[2]
====
